---- MODULE Spec2Model ----
(***************************************************************************)
(* A model of the food-inventory core of i-AEON-lib:                       *)
(*   src/src/iaeon/inventory/db.py        FoodInventoryDB (SQLite ledger)  *)
(*   src/src/iaeon/inventory/searcher.py  search_product_info (resolver)   *)
(*   src/src/iaeon/inventory/parser.py    quantity coercion of the parser  *)
(*                                                                         *)
(* Product names are sequences of characters.  TLA+ strings are ASCII, so  *)
(* every Japanese character of the source is written as one romanised      *)
(* token ("gyu" for 牛, "nyu" for 乳); a keyword is the sequence of its      *)
(* characters and `kw in name` is the substring test on those sequences.   *)
(***************************************************************************)
EXTENDS Integers, Sequences, FiniteSets, TLC

VARIABLES
    conn,    \* the tables as the open connection sees them (pending writes included)
    disk,    \* the tables as the database file holds them (the last commit)
    calls,   \* per product name, how often each resolver stage has run
    faults,  \* how often the storage engine has failed
    last,    \* the operation that has just returned (its name, arguments and
             \* outcome), idle once the caller has taken the outcome
    importers \* two processes that import on connections of their own to the
             \* same file: who holds the file's write lock, and where each is

vars == <<conn, disk, calls, faults, last, importers>>

-----------------------------------------------------------------------------
(* Bounds of the model *)

\* receipt ids are 1..MaxReceipts
MaxReceipts == 2

\* a receipt carries at most MaxItems line items
MaxItems == 2

\* the largest Quantity a structured payload carries
MaxQty == 2

\* the largest count passed to mark_consumed
MaxCount == 2

\* rows the model lets table purchases grow to
MaxPurchases == 2

\* failures of the storage engine in one run
MaxFaults == 1

\* the largest number of entries of a payload's line-item array
MaxEntries == 2

\* the largest number of text lines of a receipt
MaxLines == 3

\* product names are made of at most MaxParts parts
MaxParts == 2

\* distinct names the resolver is asked about in one run
MaxCached == 2

\* the clock runs over days 0..MaxNow
MaxNow == 6

\* the largest window passed to get_expiring_soon
MaxWindow == 3

\* clock ticks per day: julianday('now') carries the time of day
TicksPerDay == 2

-----------------------------------------------------------------------------
(* Optional values: None is the empty sequence, a value v is <<v>> *)

None == <<>>

Some(v) == <<v>>

Min(a, b) == IF a <= b THEN a ELSE b

Max(a, b) == IF a >= b THEN a ELSE b

\* Python's `kw in name` on strings: kw occurs as a contiguous substring
Contains(kw, name) ==
    \E i \in 0..(Len(name) - Len(kw)) :
        \A j \in 1..Len(kw) : name[i + j] = kw[j]

\* Python's dict.get(key, default)
DictGet(d, key, default) == IF key \in DOMAIN d THEN d[key] ELSE default

-----------------------------------------------------------------------------
(* searcher.py: the rule table and the non-food denylist.  The entries     *)
(* kept are in the order of the source table; the comment before each      *)
(* names its line and its keywords.                                        *)

KEYWORD_RULES == <<
    \* searcher.py:18  牛乳, ミルク
    [keywords |-> << <<"gyu", "nyu">>, <<"mi", "ru", "ku">> >>,
     attrs |-> [category |-> "inryo", subcategory |-> "gyunyu-nyuinryo",
                storage_type |-> "reizo", shelf_life_days |-> 7]],
    \* searcher.py:30  鶏肉, チキン
    [keywords |-> << <<"tori", "niku">>, <<"chi", "ki", "n">> >>,
     attrs |-> [category |-> "nikurui", subcategory |-> "toriniku",
                storage_type |-> "reizo", shelf_life_days |-> 3]],
    \* searcher.py:34  ハム
    [keywords |-> << <<"ha", "mu">> >>,
     attrs |-> [category |-> "nikurui", subcategory |-> "hamu-sooseeji",
                storage_type |-> "reizo", shelf_life_days |-> 14]],
    \* searcher.py:52  ジャガイモ, ポテト
    [keywords |-> << <<"ja", "ga", "i", "mo">>, <<"po", "te", "to">> >>,
     attrs |-> [category |-> "yasai", subcategory |-> "konsai",
                storage_type |-> "joon", shelf_life_days |-> 30]],
    \* searcher.py:77  ポテトチップ, ポテチ
    [keywords |-> << <<"po", "te", "to", "chi", "ltu", "pu">>, <<"po", "te", "chi">> >>,
     attrs |-> [category |-> "kashi", subcategory |-> "sunakku-gashi",
                storage_type |-> "joon", shelf_life_days |-> 120]],
    \* searcher.py:99  缶
    [keywords |-> << <<"kan">> >>,
     attrs |-> [category |-> "kanzume-binzume", subcategory |-> "kanzume",
                storage_type |-> "joon", shelf_life_days |-> 1095]],
    \* searcher.py:107  ティッシュ
    [keywords |-> << <<"te", "li", "ltu", "shi", "lyu">> >>,
     attrs |-> [category |-> "nichiyohin", subcategory |-> "tisshu",
                storage_type |-> "joon", is_food |-> FALSE]],
    \* searcher.py:112  レジ袋, 袋
    [keywords |-> << <<"re", "ji", "fukuro">>, <<"fukuro">> >>,
     attrs |-> [category |-> "sonota", subcategory |-> "rejibukuro",
                storage_type |-> "joon", is_food |-> FALSE]]
>>

\* searcher.py:116-122  ティッシュ, ゴミ袋, ラップ, レジ袋, マスク
NON_FOOD_KEYWORDS == <<
    <<"te", "li", "ltu", "shi", "lyu">>, <<"go", "mi", "fukuro">>,
    <<"ra", "ltu", "pu">>, <<"re", "ji", "fukuro">>, <<"ma", "su", "ku">> >>

-----------------------------------------------------------------------------
(* models.py: ProductInfo, with the defaults of the dataclass *)

ProductInfo(category, subcategory, content_amount, content_unit, manufacturer, storage_type, is_food) ==
    [category |-> category, subcategory |-> subcategory,
     content_amount |-> content_amount, content_unit |-> content_unit,
     manufacturer |-> manufacturer, storage_type |-> storage_type,
     is_food |-> is_food]

DefaultInfo == ProductInfo("", "", None, "", "", "joon", TRUE)

-----------------------------------------------------------------------------
(* searcher.py: the stages of the resolver *)

RuleMatches(rule, product_name) ==
    \E k \in DOMAIN rule.keywords : Contains(rule.keywords[k], product_name)

RuleInfo(attrs) ==
    ProductInfo(DictGet(attrs, "category", ""),
                DictGet(attrs, "subcategory", ""),
                None, "", "",
                DictGet(attrs, "storage_type", "joon"),
                DictGet(attrs, "is_food", TRUE))

RECURSIVE MatchFrom(_, _)
\* the loop of _match_local_keywords from rule i on
MatchFrom(product_name, i) ==
    IF i > Len(KEYWORD_RULES) THEN None
    ELSE IF RuleMatches(KEYWORD_RULES[i], product_name)
         THEN Some(RuleInfo(KEYWORD_RULES[i].attrs))
         ELSE MatchFrom(product_name, i + 1)

\* a variant of _match_local_keywords in which the last matching rule of
\* the table wins
MatchLast(product_name) ==
    LET M == {r \in DOMAIN KEYWORD_RULES :
                 RuleMatches(KEYWORD_RULES[r], product_name)}
    IN  IF M = {} THEN None
        ELSE Some(RuleInfo(KEYWORD_RULES[CHOOSE r \in M :
                                            \A q \in M : q <= r].attrs))

_match_local_keywords(product_name) == MatchFrom(product_name, 1)

\* not any(kw in product_name for kw in NON_FOOD_KEYWORDS)
NoNonFoodKeyword(product_name) ==
    ~ \E k \in DOMAIN NON_FOOD_KEYWORDS :
          Contains(NON_FOOD_KEYWORDS[k], product_name)

\* What the search service can answer: a network or decode error, a reply
\* without items, and replies whose snippets do or do not carry an amount
\* ("500ml") and a maker ("メーカー: M").
GoogleResponses ==
    { [ok |-> FALSE, items |-> 0, amount |-> None, unit |-> "", maker |-> ""],
      [ok |-> TRUE,  items |-> 0, amount |-> None, unit |-> "", maker |-> ""],
      [ok |-> TRUE,  items |-> 1, amount |-> None, unit |-> "", maker |-> ""],
      [ok |-> TRUE,  items |-> 1, amount |-> Some(500), unit |-> "ml", maker |-> "M"] }

\* a variant of _search_google that takes a category from the reply
ClassifyingSearch(product_name, has_keys, resp) ==
    IF ~has_keys THEN None
    ELSE IF ~resp.ok THEN None
    ELSE IF resp.items = 0 THEN None
    ELSE Some(ProductInfo("web", "", resp.amount, resp.unit, resp.maker, "joon",
                          NoNonFoodKeyword(product_name)))

_search_google(product_name, has_keys, resp) ==
    IF ~has_keys THEN None
    ELSE IF ~resp.ok THEN None
    ELSE IF resp.items = 0 THEN None
    ELSE Some(ProductInfo("", "", resp.amount, resp.unit, resp.maker, "joon",
                          NoNonFoodKeyword(product_name)))

\* the dict that is stored, as JSON text, in search_cache.search_result
_info_to_dict(info) ==
    [category |-> info.category, subcategory |-> info.subcategory,
     content_amount |-> info.content_amount, content_unit |-> info.content_unit,
     manufacturer |-> info.manufacturer, storage_type |-> info.storage_type,
     is_food |-> info.is_food]

\* ProductInfo(**cached): absent keys take the defaults of the dataclass
InfoFromDict(cached) ==
    ProductInfo(DictGet(cached, "category", ""),
                DictGet(cached, "subcategory", ""),
                DictGet(cached, "content_amount", None),
                DictGet(cached, "content_unit", ""),
                DictGet(cached, "manufacturer", ""),
                DictGet(cached, "storage_type", "joon"),
                DictGet(cached, "is_food", TRUE))

-----------------------------------------------------------------------------
(* parser.py: how the structured stage coerces a Sale's Quantity.  A raw   *)
(* value is numeric (num, with its integer value val) or not numeric.      *)

RawValues ==
    {[num |-> FALSE, val |-> 0]} \cup {[num |-> TRUE, val |-> v] : v \in -1..MaxQty}

\* int(float(str(value))), 0 when the text is not a number
_to_int(value) == IF value.num THEN value.val ELSE 0

\* quantity = 1; qty_val = sale.get("Quantity"); ... _to_int(qty_val) or 1
ParsedQuantity(qty_val) ==
    IF qty_val = None THEN 1
    ELSE IF _to_int(qty_val[1]) = 0 THEN 1 ELSE _to_int(qty_val[1])

\* the quantities a ParsedProduct can carry
Quantities == {ParsedQuantity(q) : q \in {None} \cup {Some(v) : v \in RawValues}}

-----------------------------------------------------------------------------
(* parser.py: texts.  A text is the sequence of its characters; a word of  *)
(* a name counts as one character, " " is a whitespace character.          *)

DigitChars == <<"0", "1", "2", "3", "4", "5", "6", "7", "8", "9">>

IsDigit(c) == \E i \in DOMAIN DigitChars : DigitChars[i] = c

DigitVal(c) == (CHOOSE i \in DOMAIN DigitChars : DigitChars[i] = c) - 1

\* text[from..], "" beyond the end
Drop(text, from) == SubSeq(text, from, Len(text))

RECURSIVE Remove(_, _)
\* str.replace(c, "") for each character c of the set chars
Remove(text, chars) ==
    IF text = <<>> THEN <<>>
    ELSE IF Head(text) \in chars THEN Remove(Tail(text), chars)
         ELSE <<Head(text)>> \o Remove(Tail(text), chars)

RECURSIVE LStrip(_)
LStrip(text) ==
    IF text # <<>> /\ Head(text) = " " THEN LStrip(Tail(text)) ELSE text

RECURSIVE RStrip(_)
RStrip(text) ==
    IF text # <<>> /\ text[Len(text)] = " "
    THEN RStrip(SubSeq(text, 1, Len(text) - 1)) ELSE text

\* str.strip()
Strip(text) == RStrip(LStrip(text))

RECURSIVE DigitRun(_, _)
\* the number of digits text has from position i on, before another character
DigitRun(text, i) ==
    IF i <= Len(text) /\ IsDigit(text[i]) THEN 1 + DigitRun(text, i + 1) ELSE 0

RECURSIVE Decimal(_, _)
\* the value of the digits of text, acc being the value of those before
Decimal(text, acc) ==
    IF text = <<>> THEN acc
    ELSE Decimal(Tail(text), 10 * acc + DigitVal(Head(text)))

\* int(float(text)) for a text of the shape [-]digits[.digits]; float()
\* strips whitespace and raises ValueError for every other text over the
\* characters of the model, which _to_int answers with 0
ParseFloat(text) ==
    LET t == Strip(text)
        neg == t # <<>> /\ Head(t) = "-"
        u == IF neg THEN Tail(t) ELSE t
        n == DigitRun(u, 1)
        rest == Drop(u, n + 1)
        ok == /\ n >= 1
              /\ \/ rest = <<>>
                 \/ /\ Head(rest) = "."
                    /\ DigitRun(rest, 2) = Len(rest) - 1
        value == Decimal(SubSeq(u, 1, n), 0)
    IN  IF ok THEN [num |-> TRUE, val |-> IF neg THEN 0 - value ELSE value]
        ELSE [num |-> FALSE, val |-> 0]

-----------------------------------------------------------------------------
(* parser.py: the structured payload.  A JSON value is null, a string, a   *)
(* number, an object or an array.                                          *)

JNull == [t |-> "null"]
JStr(text) == [t |-> "str", s |-> text]
JNum(n) == [t |-> "num", n |-> n]
JDict(d) == [t |-> "dict", d |-> d]
JList(l) == [t |-> "list", l |-> l]

\* Python's truth value of a JSON value
Falsy(v) ==
    \/ v.t = "null"
    \/ v.t = "str" /\ v.s = <<>>
    \/ v.t = "num" /\ v.n = 0
    \/ v.t = "dict" /\ DOMAIN v.d = {}
    \/ v.t = "list" /\ v.l = <<>>

\* v.get(key, default) of an object v; on any other value .get raises
\* AttributeError, which the callers test with v.t = "dict" beforehand
Get(v, key, default) == IF key \in DOMAIN v.d THEN v.d[key] ELSE default

\* what float(str(value).replace(",", "").replace("¥", "")) makes of a
\* JSON value: the text of an object, an array or null is not a number
ToRaw(v) ==
    IF v.t = "str" THEN ParseFloat(Remove(v.s, {",", "yen"}))
    ELSE IF v.t = "num" THEN [num |-> TRUE, val |-> v.n]
    ELSE [num |-> FALSE, val |-> 0]

\* a field of a Sale read as `x.get("#Value", d) if isinstance(x, dict)
\* else x`: the value _to_int is given, None when the field is absent or null
Scalar(field, default) ==
    IF field.t = "dict" THEN Some(ToRaw(Get(field, "#Value", default)))
    ELSE IF field.t = "null" THEN None
    ELSE Some(ToRaw(field))

\* lines 44-50: the path to the line items; None stands for AttributeError
\* or TypeError inside the try block
RECURSIVE Descend(_, _)
Descend(v, keys) ==
    IF keys = <<>> THEN Some(v)
    ELSE IF v.t # "dict" THEN None
    ELSE Descend(Get(v, Head(keys),
                     IF Head(keys) = "LineItem" THEN JList(<<>>) ELSE JDict(<<>>)),
                 Tail(keys))

\* lines 56-111 for one entry of the line items: [raised |-> TRUE] when an
\* exception leaves the loop, else the products the entry adds (none or one)
ParseEntry(item) ==
    IF item.t # "dict" THEN [raised |-> TRUE, products |-> <<>>]
    ELSE LET sale == Get(item, "Sale", JNull) IN
    IF Falsy(sale) THEN [raised |-> FALSE, products |-> <<>>]
    ELSE IF sale.t # "dict" THEN [raised |-> TRUE, products |-> <<>>]
    ELSE LET desc == Get(sale, "ItemDescription", JNull)
             name == IF desc.t = "dict" THEN Get(desc, "#Value", JStr(<<>>))
                     ELSE IF desc.t = "str" THEN desc
                     ELSE JStr(<<>>)
             ext_amount == Scalar(Get(sale, "ExtendedAmount", JNull), JStr(<<"0">>))
             qty_val == Scalar(Get(sale, "Quantity", JNull), JStr(<<"1">>))
             disc == Get(sale, "Discount", JNull)
             disc_amount == IF ~Falsy(disc) /\ disc.t = "dict"
                            THEN Scalar(Get(disc, "Amount", JNull), JStr(<<"0">>))
                            ELSE None
         IN
    IF Falsy(name) THEN [raised |-> FALSE, products |-> <<>>]
    ELSE IF name.t # "str" THEN [raised |-> TRUE, products |-> <<>>]
    ELSE [raised |-> FALSE,
          products |->
              << [name |-> Strip(name.s),
                  price |-> IF ext_amount = None THEN 0 ELSE _to_int(ext_amount[1]),
                  quantity |-> ParsedQuantity(qty_val),
                  discount |-> IF disc_amount = None THEN 0
                               ELSE _to_int(disc_amount[1])] >>]

RECURSIVE ParseEntries(_, _, _)
\* the loop over line_items from entry i on, products being those so far
ParseEntries(line_items, i, products) ==
    IF i > Len(line_items) THEN Some(products)
    ELSE LET e == ParseEntry(line_items[i]) IN
         IF e.raised THEN None
         ELSE ParseEntries(line_items, i + 1, products \o e.products)

\* _parse_from_raw: Some(products), or None when an exception is raised
_parse_from_raw(raw) ==
    LET line_items == Descend(raw, <<"results", "DigitalReceipt", "Transaction",
                                    "RetailTransaction", "LineItem">>)
    IN  IF line_items = None THEN Some(<<>>)
        ELSE ParseEntries(IF line_items[1].t = "list" THEN line_items[1].l
                          ELSE <<line_items[1]>>, 1, <<>>)

-----------------------------------------------------------------------------
(* parser.py: the textual stage.  In a line, "PD('" stands for the text    *)
(* PrintDouble(' , "'," for the closing quote and comma, ")" for the       *)
(* closing parenthesis, "Bitmap" and "BarCode" for PrintBitmap and         *)
(* PrintBarCode, "yen" for the currency sign, "*" for a promo sign,        *)
(* "nebiki" and "kuupon" for the words 値引 and ｸｰﾎﾟﾝ, "goukei" and         *)
(* "shoukei" for 合計 and 小計.                                             *)

SkipWords == {"goukei", "shoukei"}

DiscountWords == {"nebiki", "kuupon"}

RECURSIVE SpaceRun(_, _)
\* the number of whitespace characters text has from position i on
SpaceRun(text, i) ==
    IF i <= Len(text) /\ text[i] = " " THEN 1 + SpaceRun(text, i + 1) ELSE 0

\* \s{2,}[¥\\]?(\d{1,6})[※＊*]?\s* from position j on: the position after
\* the match and the digits matched, or None
PriceTail(text, j) ==
    LET w == SpaceRun(text, j)
        a == j + w
        b == IF a <= Len(text) /\ text[a] = "yen" THEN a + 1 ELSE a
        d == DigitRun(text, b)
        c == b + d
        e == IF c <= Len(text) /\ text[c] = "*" THEN c + 1 ELSE c
    IN  IF w >= 2 /\ d >= 1 /\ d <= 6
        THEN Some([end |-> e + SpaceRun(text, e), digits |-> SubSeq(text, b, c - 1)])
        ELSE None

\* product_pattern.match(line): ^(.+?) is the shortest text after which
\* the rest of the pattern matches up to the end of the line
ProductMatch(line) ==
    LET K == {k \in 1..Len(line) :
                 /\ PriceTail(line, k + 1) # None
                 /\ PriceTail(line, k + 1)[1].end = Len(line) + 1}
    IN  IF K = {} THEN None
        ELSE LET k == CHOOSE x \in K : \A y \in K : x <= y
             IN  Some([name |-> SubSeq(line, 1, k),
                       price |-> PriceTail(line, k + 1)[1].digits])

\* double_pattern.search(line): the leftmost PrintDouble(' after which the
\* pattern matches, with the shortest (.+?)
DoubleMatch(line) ==
    LET Closes(e) == /\ e + 2 <= Len(line)
                     /\ line[e] = "',"
                     /\ LET f == e + 1 + SpaceRun(line, e + 1)
                        IN  /\ DigitRun(line, f) >= 1
                            /\ f + DigitRun(line, f) <= Len(line)
                            /\ line[f + DigitRun(line, f)] = ")"
        M == {m \in [i : 1..Len(line), k : 1..Len(line)] :
                 /\ line[m.i] = "PD('"
                 /\ m.i + m.k <= Len(line)
                 /\ PriceTail(line, m.i + m.k + 1) # None
                 /\ Closes(PriceTail(line, m.i + m.k + 1)[1].end)}
    IN  IF M = {} THEN None
        ELSE LET m == CHOOSE x \in M :
                          \A y \in M : x.i < y.i \/ (x.i = y.i /\ x.k <= y.k)
             IN  Some([name |-> SubSeq(line, m.i + 1, m.i + m.k),
                       price |-> PriceTail(line, m.i + m.k + 1)[1].digits])

\* discount_pattern.search(line): after a discount word, the first "-"
\* that a digit follows, and at most six of the digits
DiscountMatch(line) ==
    LET W == {i \in 1..Len(line) : line[i] \in DiscountWords}
        J == {j \in 1..Len(line) :
                 /\ \E i \in W : i < j
                 /\ line[j] = "-"
                 /\ DigitRun(line, j + 1) >= 1}
    IN  IF J = {} THEN None
        ELSE LET j == CHOOSE x \in J : \A y \in J : x <= y
             IN  Some(SubSeq(line, j + 1, j + Min(6, DigitRun(line, j + 1))))

\* a variant of _is_skip_line that skips nothing
NeverSkip(name) == FALSE

\* _is_skip_line(name)
_is_skip_line(name) == \E i \in DOMAIN name : name[i] \in SkipWords

\* lines 148-151 and 157-160: the products with the item of a match added
\* when its name and price pass
Accept(products, m) ==
    LET name == Strip(m.name)
        price == _to_int(ParseFloat(m.price))
    IN  IF name # <<>> /\ price > 0 /\ ~_is_skip_line(name)
        THEN Append(products, [name |-> name, price |-> price,
                               quantity |-> 1, discount |-> 0])
        ELSE products

\* the body of the loop of _parse_from_lines for one line
ParseLine(products, line) ==
    IF \E i \in DOMAIN line : line[i] \in {"Bitmap", "BarCode"} THEN products
    ELSE IF DoubleMatch(line) # None THEN Accept(products, DoubleMatch(line)[1])
    ELSE IF ProductMatch(line) # None THEN Accept(products, ProductMatch(line)[1])
    ELSE IF DiscountMatch(line) # None /\ products # <<>>
    THEN [products EXCEPT ![Len(products)].discount =
              _to_int(ParseFloat(DiscountMatch(line)[1]))]
    ELSE products

RECURSIVE ParseLines(_, _, _)
ParseLines(lines, i, products) ==
    IF i > Len(lines) THEN products
    ELSE ParseLines(lines, i + 1, ParseLine(products, lines[i]))

_parse_from_lines(lines) == ParseLines(lines, 1, <<>>)

\* parse_receipt with the textual stage run in every case, its items added
\* after the structured ones
SupplementedReceipt(detail, summary) ==
    LET structured == IF detail.raw = None \/ Falsy(detail.raw[1]) THEN Some(<<>>)
                      ELSE _parse_from_raw(detail.raw[1])
    IN  IF structured = None THEN None
        ELSE Some([receipt_id |-> detail.receipt_id,
                   store_name |-> summary.store_name,
                   purchased_at |-> summary.datetime,
                   products |-> structured[1] \o _parse_from_lines(detail.lines)])

\* parse_receipt: Some(ReceiptProducts), or None when an exception is raised.
\* detail.raw is None when there is no payload.
parse_receipt(detail, summary) ==
    LET structured == IF detail.raw = None \/ Falsy(detail.raw[1]) THEN Some(<<>>)
                      ELSE _parse_from_raw(detail.raw[1])
    IN  IF structured = None THEN None
        ELSE Some([receipt_id |-> detail.receipt_id,
                   store_name |-> summary.store_name,
                   purchased_at |-> summary.datetime,
                   products |-> IF structured[1] = <<>>
                                THEN _parse_from_lines(detail.lines)
                                ELSE structured[1]])

-----------------------------------------------------------------------------
(* db.py: the tables.  A table is the sequence of its rows, a row's id is  *)
(* its index (INTEGER PRIMARY KEY AUTOINCREMENT, rows are never deleted).  *)
(* The created_at / updated_at columns are left out.                       *)

EmptyTables ==
    [products |-> <<>>, purchases |-> <<>>, inventory |-> <<>>,
     search_cache |-> <<>>]

\* a variant of the INSERT of upsert_product that also writes the shelf life
\* of the first rule of the table whose keyword the name contains
ProductRowWithShelfLife(name, info) ==
    LET rs == {r \in DOMAIN KEYWORD_RULES :
                 \E k \in DOMAIN KEYWORD_RULES[r].keywords :
                     Contains(KEYWORD_RULES[r].keywords[k], name)}
        first == CHOOSE r \in rs : \A q \in rs : r <= q
    IN  [name |-> name,
         category |-> IF info = None THEN "" ELSE info[1].category,
         subcategory |-> IF info = None THEN "" ELSE info[1].subcategory,
         content_amount |-> IF info = None THEN None ELSE info[1].content_amount,
         content_unit |-> IF info = None THEN "" ELSE info[1].content_unit,
         manufacturer |-> IF info = None THEN "" ELSE info[1].manufacturer,
         is_food |-> IF info = None \/ info[1].is_food THEN 1 ELSE 0,
         storage_type |-> IF info = None THEN "joon" ELSE info[1].storage_type,
         shelf_life_days |->
             IF rs # {} /\ "shelf_life_days" \in DOMAIN KEYWORD_RULES[first].attrs
             THEN Some(KEYWORD_RULES[first].attrs.shelf_life_days) ELSE None]

\* the row INSERT INTO products writes; shelf_life_days is in neither
\* column list and takes its default, NULL
ProductRow(name, info) ==
    IF info = None
    THEN [name |-> name, category |-> "", subcategory |-> "",
          content_amount |-> None, content_unit |-> "", manufacturer |-> "",
          is_food |-> 1, storage_type |-> "joon", shelf_life_days |-> None]
    ELSE [name |-> name, category |-> info[1].category,
          subcategory |-> info[1].subcategory,
          content_amount |-> info[1].content_amount,
          content_unit |-> info[1].content_unit,
          manufacturer |-> info[1].manufacturer,
          is_food |-> IF info[1].is_food THEN 1 ELSE 0,
          storage_type |-> info[1].storage_type, shelf_life_days |-> None]

\* a variant of the UPDATE of upsert_product that keeps an old text where
\* the new one is empty
MergedProductRow(row, info) ==
    [row EXCEPT !.category = IF info.category = "" THEN @ ELSE info.category,
                !.subcategory = IF info.subcategory = "" THEN @ ELSE info.subcategory,
                !.content_amount = IF info.content_amount = None THEN @
                                   ELSE info.content_amount,
                !.content_unit = IF info.content_unit = "" THEN @ ELSE info.content_unit,
                !.manufacturer = IF info.manufacturer = "" THEN @ ELSE info.manufacturer,
                !.is_food = IF info.is_food THEN 1 ELSE 0,
                !.storage_type = info.storage_type]

\* UPDATE products SET category = ?, ... storage_type = ? WHERE id = ?
UpdatedProductRow(row, info) ==
    [row EXCEPT !.category = info.category, !.subcategory = info.subcategory,
                !.content_amount = info.content_amount,
                !.content_unit = info.content_unit,
                !.manufacturer = info.manufacturer,
                !.is_food = IF info.is_food THEN 1 ELSE 0,
                !.storage_type = info.storage_type]

\* a variant of the SELECT of upsert_product that finds no row
NoProductIds(t, name) == {}

\* SELECT id FROM products WHERE name = ?
ProductIds(t, name) == {i \in DOMAIN t.products : t.products[i].name = name}

\* A database is the pair of the connection's view and the file's content;
\* conn.commit() makes the file hold what the connection sees.
Commit(db) == [db EXCEPT !.disk = db.conn]

\* upsert_product: the database afterwards and the product id returned
upsert_product(db, name, info) ==
    LET ids == ProductIds(db.conn, name) IN
    IF ids # {}
    THEN LET product_id == CHOOSE i \in ids : TRUE IN
         IF info # None
         THEN [db |-> Commit([db EXCEPT !.conn.products[product_id] =
                                 UpdatedProductRow(@, info[1])]),
               id |-> product_id]
         ELSE [db |-> db, id |-> product_id]
    ELSE [db |-> Commit([db EXCEPT !.conn.products =
                             Append(@, ProductRow(name, info))]),
          id |-> Len(db.conn.products) + 1]

\* a variant of is_receipt_imported that tests cnt > 1
ImportedMoreThanOnce(t, receipt_id) ==
    Cardinality({i \in DOMAIN t.purchases :
                    t.purchases[i].receipt_id = receipt_id}) > 1

\* SELECT COUNT(*) FROM purchases WHERE receipt_id = ? ... cnt > 0
is_receipt_imported(t, receipt_id) ==
    \E i \in DOMAIN t.purchases : t.purchases[i].receipt_id = receipt_id

PurchaseRow(product_id, receipt, product) ==
    [product_id |-> product_id, receipt_id |-> receipt.receipt_id,
     store_name |-> receipt.store_name, price |-> product.price,
     quantity |-> product.quantity, discount |-> product.discount,
     purchased_at |-> receipt.purchased_at]

RECURSIVE InsertUnits(_, _, _)
\* n times INSERT INTO inventory (purchase_id): status defaults to in_stock
InsertUnits(rows, purchase_id, n) ==
    IF n <= 0 THEN rows
    ELSE InsertUnits(Append(rows, [purchase_id |-> purchase_id,
                                   status |-> "in_stock"]),
                     purchase_id, n - 1)

\* The storage engine may fail at any statement of import_receipt: in
\* upsert_product, at the INSERT of the purchase, at an INSERT of a unit
\* (after k units of the item), or at the final commit.  NoFail: it does not.
NoFail == [item |-> 0, at |-> "none", k |-> 0]

FailPoints(receipt) ==
    {[item |-> i, at |-> a, k |-> 0] :
        i \in 1..Len(receipt.products), a \in {"upsert", "purchase"}}
    \cup {[item |-> i, at |-> "inventory", k |-> k] :
            i \in 1..Len(receipt.products), k \in 0..MaxQty}
    \cup {[item |-> Len(receipt.products) + 1, at |-> "commit", k |-> 0]}

RECURSIVE ImportItems(_, _, _, _, _)
\* the loop of import_receipt from item i on and the commit after it:
\* the database afterwards, and the count returned (None: an error is raised)
ImportItems(db, receipt, product_infos, fail, i) ==
    IF i > Len(receipt.products)
    THEN IF fail.at = "commit"
         THEN [db |-> db, ret |-> None]
         ELSE [db |-> Commit(db), ret |-> Some(Len(receipt.products))]
    ELSE
    LET product == receipt.products[i]
        info == IF product.name \in DOMAIN product_infos
                THEN Some(product_infos[product.name]) ELSE None
        failsHere == fail.item = i
    IN  IF failsHere /\ fail.at = "upsert"
        THEN [db |-> db, ret |-> None]
        ELSE
        LET up == upsert_product(db, product.name, info)
            purchase_id == Len(up.db.conn.purchases) + 1
            db2 == [up.db EXCEPT !.conn.purchases =
                        Append(@, PurchaseRow(up.id, receipt, product))]
            stops == failsHere /\ fail.at = "inventory" /\ fail.k < product.quantity
            units == IF stops THEN fail.k ELSE product.quantity
            db3 == [db2 EXCEPT !.conn.inventory = InsertUnits(@, purchase_id, units)]
        IN  IF failsHere /\ fail.at = "purchase"
            THEN [db |-> up.db, ret |-> None]
            ELSE IF stops
            THEN [db |-> db3, ret |-> None]
            ELSE ImportItems(db3, receipt, product_infos, fail, i + 1)

\* a variant of import_receipt without the early return for a known receipt
ImportUnguarded(db, receipt, product_infos, fail) ==
    ImportItems(db, receipt, product_infos, fail, 1)

\* import_receipt: the database afterwards, and the count returned
import_receipt(db, receipt, product_infos, fail) ==
    IF is_receipt_imported(db.conn, receipt.receipt_id)
    THEN [db |-> db, ret |-> Some(0)]
    ELSE ImportItems(db, receipt, product_infos, fail, 1)

-----------------------------------------------------------------------------
(* db.py: consumption and the two listings *)

ProductOfUnit(t, u) == t.purchases[t.inventory[u].purchase_id].product_id

PurchasedAtOfUnit(t, u) == t.purchases[t.inventory[u].purchase_id].purchased_at

\* the units of table inventory with status in_stock
InStockUnits(t) == {u \in DOMAIN t.inventory : t.inventory[u].status = "in_stock"}

\* ... WHERE p.name = ? AND i.status = 'in_stock'
InStockUnitsOf(t, product_name) ==
    {u \in InStockUnits(t) : t.products[ProductOfUnit(t, u)].name = product_name}

\* a variant of the SELECT of mark_consumed that orders by purchased_at DESC
SelectedNewestFirst(t, product_name, count) ==
    LET U == InStockUnitsOf(t, product_name)
        n == IF count < 0 THEN Cardinality(U) ELSE Min(count, Cardinality(U))
    IN  {T \in SUBSET U :
            /\ Cardinality(T) = n
            /\ \A x \in T, y \in U \ T :
                   PurchasedAtOfUnit(t, x) >= PurchasedAtOfUnit(t, y)}

\* a variant of the SELECT of mark_consumed without its LIMIT
SelectedWithoutLimit(t, product_name, count) == {InStockUnitsOf(t, product_name)}

\* ORDER BY pu.purchased_at ASC LIMIT ?: the sets of rows the SELECT of
\* mark_consumed can return.  SQLite reads a negative LIMIT as no limit, and
\* the order among units of equal purchased_at is not fixed.
SelectedUnits(t, product_name, count) ==
    LET U == InStockUnitsOf(t, product_name)
        n == IF count < 0 THEN Cardinality(U) ELSE Min(count, Cardinality(U))
    IN  {T \in SUBSET U :
            /\ Cardinality(T) = n
            /\ \A x \in T, y \in U \ T :
                   PurchasedAtOfUnit(t, x) <= PurchasedAtOfUnit(t, y)}

\* a variant of mark_consumed that also puts every other unit back in stock
ConsumeAndRestock(db, rows) ==
    [db |-> Commit([db EXCEPT !.conn.inventory =
                       [u \in DOMAIN @ |->
                           IF u \in rows THEN [@[u] EXCEPT !.status = "consumed"]
                           ELSE [@[u] EXCEPT !.status = "in_stock"]]]),
     ret |-> Cardinality(rows)]

\* a variant of mark_consumed that also takes the units consumed off the
\* quantity of their purchases
ConsumeAndAdjust(db, rows) ==
    [db |-> Commit([db EXCEPT
                       !.conn.inventory =
                           [u \in DOMAIN @ |->
                               IF u \in rows THEN [@[u] EXCEPT !.status = "consumed"]
                               ELSE @[u]],
                       !.conn.purchases =
                           [i \in DOMAIN @ |->
                               [@[i] EXCEPT !.quantity =
                                   @ - Cardinality({u \in rows :
                                          db.conn.inventory[u].purchase_id = i})]]]),
     ret |-> Cardinality(rows)]

\* mark_consumed once its SELECT has returned rows: the database afterwards
\* and the number returned
\* a variant of the UPDATE of mark_consumed that writes status 'expired'
MarkExpired(db, rows) ==
    [db |-> Commit([db EXCEPT !.conn.inventory =
                       [u \in DOMAIN @ |->
                           IF u \in rows THEN [@[u] EXCEPT !.status = "expired"]
                           ELSE @[u]]]),
     ret |-> Cardinality(rows)]

mark_consumed(db, rows) ==
    [db |-> Commit([db EXCEPT !.conn.inventory =
                       [u \in DOMAIN @ |->
                           IF u \in rows THEN [@[u] EXCEPT !.status = "consumed"]
                           ELSE @[u]]]),
     ret |-> Cardinality(rows)]

RECURSIVE SumQuantity(_, _)
\* SUM(pu.quantity) over the joined rows of the units U
SumQuantity(t, U) ==
    IF U = {} THEN 0
    ELSE LET u == CHOOSE x \in U : TRUE
         IN  t.purchases[t.inventory[u].purchase_id].quantity
                 + SumQuantity(t, U \ {u})

\* MAX(pu.purchased_at) over the joined rows of the units U
MaxPurchasedAt(t, U) ==
    CHOOSE d \in {PurchasedAtOfUnit(t, u) : u \in U} :
        \A u \in U : PurchasedAtOfUnit(t, u) <= d

\* get_in_stock_items: one row per product id among the in_stock units
\* (the columns kept: name, category, storage_type, total_quantity,
\* last_purchased, shelf_life_days)
get_in_stock_items(t) ==
    {[name |-> t.products[p].name,
      category |-> t.products[p].category,
      storage_type |-> t.products[p].storage_type,
      total_quantity |->
          SumQuantity(t, {u \in InStockUnits(t) : ProductOfUnit(t, u) = p}),
      last_purchased |->
          MaxPurchasedAt(t, {u \in InStockUnits(t) : ProductOfUnit(t, u) = p}),
      shelf_life_days |-> t.products[p].shelf_life_days] :
        p \in {ProductOfUnit(t, u) : u \in InStockUnits(t)}}

\* julianday(date(purchased_at, '+N days')) - julianday('now', 'localtime'),
\* in ticks: purchased_at is a day, now a number of ticks since day 0
DaysRemainingTicks(purchased_at, shelf_life_days, now) ==
    (purchased_at + shelf_life_days) * TicksPerDay - now

\* get_expiring_soon(days) at time now: one row per unit
get_expiring_soon(t, days, now) ==
    {[unit |-> u,
      name |-> t.products[ProductOfUnit(t, u)].name,
      shelf_life_days |-> t.products[ProductOfUnit(t, u)].shelf_life_days[1],
      purchased_at |-> PurchasedAtOfUnit(t, u),
      expires_at |-> PurchasedAtOfUnit(t, u)
                         + t.products[ProductOfUnit(t, u)].shelf_life_days[1],
      days_remaining |->
          DaysRemainingTicks(PurchasedAtOfUnit(t, u),
                             t.products[ProductOfUnit(t, u)].shelf_life_days[1],
                             now)] :
        u \in {x \in InStockUnits(t) :
                 /\ t.products[ProductOfUnit(t, x)].shelf_life_days # None
                 /\ DaysRemainingTicks(
                        PurchasedAtOfUnit(t, x),
                        t.products[ProductOfUnit(t, x)].shelf_life_days[1], now)
                      <= days * TicksPerDay}}

-----------------------------------------------------------------------------
(* db.py and searcher.py: the cache and the cascade of search_product_info *)

\* get_search_cache: the stored dict, or None
get_search_cache(t, product_name) ==
    IF product_name \in DOMAIN t.search_cache
    THEN Some(t.search_cache[product_name]) ELSE None

\* a variant of set_search_cache that stores nothing
CacheNothing(db, product_name, result) == db

\* set_search_cache: INSERT OR REPLACE, then commit
set_search_cache(db, product_name, result) ==
    Commit([db EXCEPT !.conn.search_cache =
                [n \in DOMAIN @ \cup {product_name} |->
                    IF n = product_name THEN result ELSE @[n]]])

\* Python's truth value of `cached`: None and the empty dict are false
Truthy(cached) == cached # None /\ DOMAIN cached[1] # {}

\* search_product_info: the database afterwards, the ProductInfo returned,
\* and which stages ran (rule table, enrichment)
search_product_info(db, product_name, has_keys, resp) ==
    LET cached == get_search_cache(db.conn, product_name)
        local == _match_local_keywords(product_name)
        web == _search_google(product_name, has_keys, resp)
        fallback == ProductInfo("", "", None, "", "", "joon",
                                NoNonFoodKeyword(product_name))
    IN  IF Truthy(cached)
        THEN [db |-> db, ret |-> InfoFromDict(cached[1]), rule |-> 0, google |-> 0]
        ELSE IF local # None
        THEN [db |-> set_search_cache(db, product_name, _info_to_dict(local[1])),
              ret |-> local[1], rule |-> 1, google |-> 0]
        ELSE IF web # None
        THEN [db |-> set_search_cache(db, product_name, _info_to_dict(web[1])),
              ret |-> web[1], rule |-> 1, google |-> 1]
        ELSE [db |-> set_search_cache(db, product_name, _info_to_dict(fallback)),
              ret |-> fallback, rule |-> 1, google |-> 1]

-----------------------------------------------------------------------------
(* The inputs of the operations *)

\* 鶏肉 (a rule with a shelf life of 3 days matches it) and 水 (no rule)
ItemNames == { <<"tori", "niku">>, <<"mizu">> }

\* a name no receipt carries: 塩
UnknownName == <<"shio">>

\* the days receipts are dated
PurchaseDays == {0, 1}

ParsedProducts ==
    {[name |-> n, price |-> 100, quantity |-> q, discount |-> 0] :
        n \in ItemNames, q \in Quantities}

ReceiptProducts ==
    {[receipt_id |-> r, store_name |-> "aeon", purchased_at |-> d, products |-> ps] :
        r \in 1..MaxReceipts, d \in PurchaseDays,
        ps \in UNION {[1..n -> ParsedProducts] : n \in 0..MaxItems}}

\* what the resolver answers for a name without the search service
OfflineInfo(product_name) ==
    IF _match_local_keywords(product_name) # None
    THEN _match_local_keywords(product_name)[1]
    ELSE ProductInfo("", "", None, "", "", "joon", NoNonFoodKeyword(product_name))

\* what the resolver answers for a name when the search service replies
\* with an amount and a maker
OnlineInfo(product_name) ==
    search_product_info([conn |-> EmptyTables, disk |-> EmptyTables],
                        product_name, TRUE,
                        [ok |-> TRUE, items |-> 1, amount |-> Some(500),
                         unit |-> "ml", maker |-> "M"]).ret

\* the product_infos dicts passed to import_receipt: none, or the resolver's
\* answer for every name (as cmd_import passes it), without or with the
\* search service
ProductInfos ==
    {[n \in S |-> OfflineInfo(n)] : S \in {{}, ItemNames}}
        \cup {[n \in ItemNames |-> OnlineInfo(n)]}

\* the parts product names of the resolver's runs are made of:
\* ハム, 缶 (rule keywords), ラップ (on the non-food denylist only), 水
NameParts == { <<"ha", "mu">>, <<"kan">>, <<"ra", "ltu", "pu">>, <<"mizu">> }

RECURSIVE NamesOfParts(_)
\* the names of at most n parts
NamesOfParts(n) ==
    IF n <= 1 THEN NameParts
    ELSE NamesOfParts(n - 1)
            \cup {a \o b : a \in NamesOfParts(n - 1), b \in NameParts}

ResolverNames == NamesOfParts(MaxParts)

\* the names that are a keyword of the rule table
KeywordNames ==
    UNION {{KEYWORD_RULES[r].keywords[k] : k \in DOMAIN KEYWORD_RULES[r].keywords} :
              r \in DOMAIN KEYWORD_RULES}

\* the ReceiptSummary of the receipts that are parsed
Summary == [store_name |-> "aeon", datetime |-> 0]

\* an object without keys
EmptyDict == JDict([k \in {} |-> JNull])

\* a tagged-value wrapper {"#Value": v}
Tagged(v) == JDict("#Value" :> v)

\* a Sale with a description, an amount and a quantity
BaseSale ==
    [ItemDescription |-> JStr(<<"gyunyu">>), ExtendedAmount |-> JStr(<<"2", "0", "0">>),
     Quantity |-> JStr(<<"1">>), Discount |-> JNull]

\* what a payload can carry as ItemDescription (JNull: absent or null)
Descriptions ==
    { JStr(<<" ", "pan", " ">>), JStr(<<" ">>), JStr(<<>>),
      Tagged(JStr(<<"tisshu">>)), Tagged(JNum(5)), Tagged(JNull), EmptyDict,
      JNum(5), JNull }

\* ... as ExtendedAmount
Amounts ==
    { Tagged(JStr(<<"1", ",", "5", "0", "0">>)), JStr(<<"yen", "8", "8">>),
      JStr(<<"-", "5">>), JStr(<<"gyunyu">>), JNum(150), JNull }

\* ... as Quantity
SaleQuantities ==
    { JStr(<<"2">>), Tagged(JStr(<<"2">>)), JStr(<<"-", "1">>), JStr(<<"0">>),
      JStr(<<"2", ".", "0">>), JNull }

\* ... as Discount
Discounts ==
    { JDict([Amount |-> JStr(<<"5", "0">>)]),
      JDict([Amount |-> Tagged(JStr(<<"-", "5", "0">>))]),
      JStr(<<"x">>), EmptyDict }

\* the Sale objects: BaseSale with one field varied
Sales ==
    {BaseSale}
      \cup {[BaseSale EXCEPT !.ItemDescription = d] : d \in Descriptions}
      \cup {[BaseSale EXCEPT !.ExtendedAmount = a] : a \in Amounts}
      \cup {[BaseSale EXCEPT !.Quantity = q] : q \in SaleQuantities}
      \cup {[BaseSale EXCEPT !.Discount = d] : d \in Discounts}

\* the entries of a line-item array: with a Sale object, or malformed
Entries ==
    {JDict([Sale |-> JDict(sale)]) : sale \in Sales}
      \cup { JDict([Sale |-> JNull]), JDict([Sale |-> EmptyDict]),
             JDict([Sale |-> JStr(<<"x">>)]), JDict([Sale |-> JList(<<JNull>>)]),
             EmptyDict, JNull, JStr(<<"x">>) }

\* what a payload can carry as LineItem: an array, one entry that is not
\* in an array, null or a string
LineItems ==
    {JList(l) : l \in UNION {[1..n -> Entries] : n \in 0..MaxEntries}}
      \cup {JDict([Sale |-> JDict(BaseSale)]), JNull, JStr(<<"x">>)}

\* the payload with value v under the first n keys of the path
RECURSIVE Nested(_, _)
Nested(keys, v) ==
    IF keys = <<>> THEN v
    ELSE JDict(Head(keys) :> Nested(Tail(keys), v))

PayloadPath ==
    <<"results", "DigitalReceipt", "Transaction", "RetailTransaction", "LineItem">>

\* detail.raw: None, an empty object, a payload with line items, a payload
\* without the LineItem key, and payloads with a null, a string or an
\* array in the place of an object of the path
Raws ==
    {None, Some(EmptyDict)}
      \cup {Some(Nested(PayloadPath, x)) : x \in LineItems}
      \cup {Some(Nested(SubSeq(PayloadPath, 1, n), bad)) :
               n \in 1..4, bad \in {JNull, JStr(<<"x">>), JList(<<>>), EmptyDict}}

Gap == <<" ", " ">>

\* the text lines of receipts
TextLines ==
    { <<"gyunyu">> \o Gap \o <<"yen", "2", "0", "0">>,
      <<"pan", " ", "6">> \o Gap \o <<"1", "5", "0", "*">>,
      <<"PD('", "tamago">> \o Gap \o <<"yen", "9", "8", "',", " ", "3", "2", ")">>,
      <<"PD('", "shoukei">> \o Gap \o <<"3", "5", "0", "',", "3", "2", ")">>,
      <<"goukei">> \o Gap \o <<"yen", "3", "5", "0">>,
      <<"Bitmap", " ", "hamu">> \o Gap \o <<"1", "0", "0">>,
      <<"BarCode", " ", "pan">> \o Gap \o <<"1", "5", "0">>,
      <<"PD('", "tamago">> \o Gap \o <<"yen", "0", "',", " ", "3", "2", ")">>,
      <<"mizu">> \o Gap \o <<"0">>,
      <<"mizu", " ", "1", "0", "0">>,
      <<"nebiki">> \o Gap \o Gap \o <<"-", "5", "0">>,
      <<"kuupon", " ", "nebiki">> \o Gap \o <<"-", "1", ",", "2", "0", "0">>,
      <<"arigatou">> }

LineLists == UNION {[1..n -> TextLines] : n \in 0..MaxLines}

\* the ReceiptDetail values that are parsed: every payload with few texts,
\* and every text without a payload
ReceiptDetails ==
    {[receipt_id |-> 1, raw |-> raw, lines |-> lines] :
        raw \in Raws,
        lines \in { <<>>,
                    << <<"gyunyu">> \o Gap \o <<"yen", "2", "0", "0">>,
                       <<"nebiki">> \o Gap \o Gap \o <<"-", "5", "0">> >> }}
      \cup {[receipt_id |-> 1, raw |-> raw, lines |-> lines] :
               raw \in {None, Some(EmptyDict)}, lines \in LineLists}

\* the processes that import at the same time, each on its own connection
Importers == {1, 2}

\* the receipts importer k imports: its id is k, so that two importers never
\* import the same receipt
ReceiptsOf(k) ==
    {r \in ReceiptProducts :
        /\ r.receipt_id = k
        /\ r.purchased_at = 0
        /\ r.products # <<>>
        /\ \A i \in DOMAIN r.products : r.products[i].quantity = 1}

CallsOf(c, product_name) ==
    IF product_name \in DOMAIN c THEN c[product_name] ELSE [rule |-> 0, google |-> 0]

-----------------------------------------------------------------------------
(* The state machine *)

Init ==
    /\ conn = EmptyTables
    /\ disk = EmptyTables
    /\ calls = <<>>
    /\ faults = 0
    /\ last = [op |-> "idle"]
    /\ importers = [holder |-> 0, of |-> [k \in Importers |-> [pc |-> "idle"]]]

\* what table purchases holds of a receipt: name, quantity and day of its
\* rows, in the order of their ids
RECURSIVE ItemsFrom(_, _, _)
ItemsFrom(t, receipt_id, i) ==
    IF i > Len(t.purchases) THEN <<>>
    ELSE IF t.purchases[i].receipt_id = receipt_id
    THEN << <<t.products[t.purchases[i].product_id].name,
              t.purchases[i].quantity, t.purchases[i].purchased_at>> >>
            \o ItemsFrom(t, receipt_id, i + 1)
    ELSE ItemsFrom(t, receipt_id, i + 1)

ItemsOf(t, receipt_id) == ItemsFrom(t, receipt_id, 1)

\* the same of a receipt that is passed to import_receipt
ItemsOfReceipt(receipt) ==
    [i \in DOMAIN receipt.products |->
        <<receipt.products[i].name, receipt.products[i].quantity,
          receipt.purchased_at>>]

\* db.import_receipt(receipt, product_infos) for a receipt of Receipts; with
\* may_fail the storage engine may fail at one of FailPoints(receipt)
Import(Receipts, may_fail) ==
    \E receipt \in Receipts :
        /\ last.op = "idle"
        /\ \/ is_receipt_imported(conn, receipt.receipt_id)
           \/ Len(conn.purchases) + Len(receipt.products) <= MaxPurchases
        /\ \E product_infos \in ProductInfos :
           \E fail \in IF is_receipt_imported(conn, receipt.receipt_id)
                          \/ faults >= MaxFaults
                       THEN {NoFail}
                       ELSE {NoFail} \cup (IF may_fail THEN FailPoints(receipt)
                                                       ELSE {}) :
             LET r == import_receipt([conn |-> conn, disk |-> disk],
                                     receipt, product_infos, fail)
             IN  /\ conn' = r.db.conn
                 /\ disk' = r.db.disk
                 /\ last' = [op |-> "import_receipt",
                             receipt_id |-> receipt.receipt_id,
                             n_items |-> Len(receipt.products),
                             was_imported |->
                                 ItemsOf(conn, receipt.receipt_id) # <<>>,
                             same_items |->
                                 ItemsOf(conn, receipt.receipt_id) =
                                     ItemsOfReceipt(receipt),
                             product_infos |-> product_infos,
                             updated |->
                                 {p \in DOMAIN conn.products :
                                     r.db.conn.products[p] # conn.products[p]},
                             ret |-> r.ret]
                 /\ faults' = IF r.ret = None THEN faults + 1 ELSE faults
        /\ UNCHANGED <<calls, importers>>

\* import_receipt on a storage engine that does not fail
ImportReceipt == Import(ReceiptProducts, FALSE)

\* import_receipt on a storage engine that may fail; the receipts are all
\* dated day 0
ImportReceiptOrFail ==
    Import({r \in ReceiptProducts : r.purchased_at = 0}, TRUE)

\* db.mark_consumed(product_name, count)
MarkConsumed ==
    \E product_name \in ItemNames \cup {UnknownName}, count \in -1..MaxCount :
      \E rows \in SelectedUnits(conn, product_name, count) :
        /\ last.op = "idle"
        /\ LET r == mark_consumed([conn |-> conn, disk |-> disk], rows)
           IN  /\ conn' = r.db.conn
               /\ disk' = r.db.disk
               /\ last' = [op |-> "mark_consumed", product_name |-> product_name,
                           count |-> count, ret |-> r.ret]
        /\ UNCHANGED <<calls, faults, importers>>

\* search_product_info(product_name, db) for a name of the set Names
Classify(Names) ==
    \E product_name \in Names, has_keys \in BOOLEAN, resp \in GoogleResponses :
        /\ last.op = "idle"
        /\ \/ product_name \in DOMAIN conn.search_cache
           \/ Cardinality(DOMAIN conn.search_cache) < MaxCached
        /\ LET r == search_product_info([conn |-> conn, disk |-> disk],
                                        product_name, has_keys, resp)
           IN  /\ conn' = r.db.conn
               /\ disk' = r.db.disk
               /\ calls' = [n \in DOMAIN calls \cup {product_name} |->
                              IF n = product_name
                              THEN [rule |-> CallsOf(calls, n).rule + r.rule,
                                    google |-> CallsOf(calls, n).google + r.google]
                              ELSE calls[n]]
               /\ last' = [op |-> "search_product_info",
                           product_name |-> product_name,
                           hit |-> product_name \in DOMAIN conn.search_cache,
                           enrichment |->
                               IF ~has_keys THEN "no_credentials"
                               ELSE IF ~resp.ok THEN "error"
                               ELSE IF resp.items = 0 THEN "no_items"
                               ELSE "ok",
                           ret |-> r.ret]
        /\ UNCHANGED <<faults, importers>>

ClassifyName == Classify(ResolverNames)

\* db.close(), or the end of the process: writes not committed are lost, and
\* the next use of the connection opens the file again
Close ==
    /\ last.op = "idle"
    /\ conn' = disk
    /\ last' = [op |-> "close"]
    /\ UNCHANGED <<disk, calls, faults, importers>>

\* the caller takes the outcome of the operation and goes on
Return ==
    /\ last.op # "idle"
    /\ last' = [op |-> "idle"]
    /\ UNCHANGED <<conn, disk, calls, faults, importers>>

Next == ImportReceipt \/ MarkConsumed \/ Return

Spec == Init /\ [][Next]_vars

\* the store on a storage engine that may fail during an import
FailNext == ImportReceiptOrFail \/ MarkConsumed \/ Close \/ Return

FailSpec == Init /\ [][FailNext]_vars

\* the resolver alone, over more names
\* the store together with the resolver, as cmd_import uses them: the names
\* of receipt items are classified, receipts (dated day 0) are imported,
\* units are consumed
ClassifyItem == Classify(ItemNames)

ImportDayZero == Import({r \in ReceiptProducts : r.purchased_at = 0}, FALSE)

LedgerNext == ClassifyItem \/ ImportDayZero \/ MarkConsumed \/ Return

LedgerSpec == Init /\ [][LedgerNext]_vars

\* parse_receipt(detail, summary)
ParseReceipt ==
    \E detail \in ReceiptDetails :
        /\ last.op = "idle"
        /\ last' = [op |-> "parse_receipt", detail |-> detail,
                    ret |-> parse_receipt(detail, Summary)]
        /\ UNCHANGED <<conn, disk, calls, faults, importers>>

ParserNext == ParseReceipt \/ Return

ParserSpec == Init /\ [][ParserNext]_vars

\* Two importers, each a FoodInventoryDB of its own on the same file
\* (sqlite3.connect in the property conn), each running import_receipt once;
\* a step is one statement on the connection.  The file has one write lock:
\* the first INSERT or UPDATE of a transaction takes it, commit and close
\* give it back, and a writer that finds it taken waits (the busy handler
\* of sqlite3.connect is taken to outlast the other transaction).  While
\* importers.holder = k, conn is what k's connection sees, its pending
\* writes included; every other connection sees disk.
View(k) == IF importers.holder = k THEN conn ELSE disk

\* importers with the lock held by holder and importer k at st
Moved(k, holder, st) ==
    [holder |-> holder, of |-> [importers.of EXCEPT ![k] = st]]

\* importer k calls db.import_receipt(receipt, product_infos)
BeginImport ==
    \E k \in Importers :
    \E receipt \in ReceiptsOf(k), product_infos \in ProductInfos :
        /\ importers.of[k].pc = "idle"
        /\ importers' = Moved(k, importers.holder,
                               [pc |-> "check", receipt |-> receipt,
                                product_infos |-> product_infos,
                                i |-> 0, product_id |-> 0, ret |-> None])
        /\ UNCHANGED <<conn, disk, calls, faults, last>>

\* if self.is_receipt_imported(receipt.receipt_id): return 0
CheckImported ==
    \E k \in Importers :
        LET me == importers.of[k] IN
        /\ me.pc = "check"
        /\ importers' =
               Moved(k, importers.holder,
                     IF is_receipt_imported(View(k), me.receipt.receipt_id)
                     THEN [me EXCEPT !.pc = "done", !.ret = Some(0)]
                     ELSE [me EXCEPT !.pc = "select", !.i = 1])
        /\ UNCHANGED <<conn, disk, calls, faults, last>>

\* upsert_product: SELECT id FROM products WHERE name = ?
SelectProduct ==
    \E k \in Importers :
        LET me == importers.of[k]
            ids == ProductIds(View(k), me.receipt.products[me.i].name)
        IN  /\ me.pc = "select"
            /\ importers' =
                   Moved(k, importers.holder,
                         [me EXCEPT !.pc = "upsert",
                                    !.product_id = IF ids = {} THEN 0
                                                   ELSE CHOOSE id \in ids : TRUE])
            /\ UNCHANGED <<conn, disk, calls, faults, last>>

\* upsert_product: the UPDATE of the row found, or the INSERT when none was
\* found, which the UNIQUE constraint of products.name fails with
\* sqlite3.IntegrityError if the name has a row by now; the transaction
\* that the statement began stays open, and with it the lock
WriteProduct ==
    \E k \in Importers :
        LET me == importers.of[k]
            name == me.receipt.products[me.i].name
            info == IF name \in DOMAIN me.product_infos
                    THEN Some(me.product_infos[name]) ELSE None
        IN  /\ me.pc = "upsert"
            /\ IF me.product_id # 0 /\ info = None
               THEN /\ importers' = Moved(k, importers.holder,
                                           [me EXCEPT !.pc = "purchase"])
                    /\ conn' = conn
               ELSE /\ importers.holder \in {0, k}
                    /\ IF me.product_id # 0
                       THEN /\ conn' = [conn EXCEPT !.products[me.product_id] =
                                            UpdatedProductRow(@, info[1])]
                            /\ importers' = Moved(k, k, [me EXCEPT !.pc = "commit"])
                       ELSE IF ProductIds(conn, name) # {}
                       THEN /\ conn' = conn
                            /\ importers' = Moved(k, k, [me EXCEPT !.pc = "failed"])
                       ELSE /\ conn' = [conn EXCEPT !.products =
                                            Append(@, ProductRow(name, info))]
                            /\ importers' =
                                   Moved(k, k, [me EXCEPT !.pc = "commit",
                                                !.product_id = Len(conn.products) + 1])
            /\ UNCHANGED <<disk, calls, faults, last>>

\* upsert_product: self.conn.commit()
CommitProduct ==
    \E k \in Importers :
        LET me == importers.of[k] IN
        /\ me.pc = "commit"
        /\ disk' = conn
        /\ importers' = Moved(k, 0, [me EXCEPT !.pc = "purchase"])
        /\ UNCHANGED <<conn, calls, faults, last>>

\* INSERT INTO purchases and, quantity times, INSERT INTO inventory
InsertPurchase ==
    \E k \in Importers :
        LET me == importers.of[k]
            product == me.receipt.products[me.i]
            purchase_id == Len(conn.purchases) + 1
        IN  /\ me.pc = "purchase"
            /\ importers.holder \in {0, k}
            /\ conn' = [conn EXCEPT
                            !.purchases =
                                Append(@, PurchaseRow(me.product_id, me.receipt,
                                                      product)),
                            !.inventory =
                                InsertUnits(@, purchase_id, product.quantity)]
            /\ importers' =
                   Moved(k, k, [me EXCEPT !.i = me.i + 1,
                                !.pc = IF me.i < Len(me.receipt.products)
                                       THEN "select" ELSE "final"])
            /\ UNCHANGED <<disk, calls, faults, last>>

\* the commit after the loop, and return count
FinalCommit ==
    \E k \in Importers :
        LET me == importers.of[k] IN
        /\ me.pc = "final"
        /\ disk' = View(k)
        /\ importers' = Moved(k, IF importers.holder = k THEN 0
                                  ELSE importers.holder,
                               [me EXCEPT !.pc = "done",
                                          !.ret = Some(Len(me.receipt.products))])
        /\ UNCHANGED <<conn, calls, faults, last>>

\* the importer whose call raised ends: its connection is closed, what it
\* had not committed is lost and its lock is given back
CloseFailed ==
    \E k \in Importers :
        LET me == importers.of[k] IN
        /\ me.pc = "failed"
        /\ conn' = IF importers.holder = k THEN disk ELSE conn
        /\ importers' = Moved(k, IF importers.holder = k THEN 0
                                  ELSE importers.holder,
                               [me EXCEPT !.pc = "closed"])
        /\ UNCHANGED <<disk, calls, faults, last>>

ConcurrentNext ==
    \/ BeginImport
    \/ CheckImported
    \/ SelectProduct
    \/ WriteProduct
    \/ CommitProduct
    \/ InsertPurchase
    \/ FinalCommit
    \/ CloseFailed

ConcurrentSpec == Init /\ [][ConcurrentNext]_vars

\* search_product_info for a name that is a keyword of the rule table
ClassifyKeyword == Classify(KeywordNames)

TableNext == ClassifyKeyword \/ Return

TableSpec == Init /\ [][TableNext]_vars

ResolverNext == ClassifyName \/ Return

ResolverSpec == Init /\ [][ResolverNext]_vars

-----------------------------------------------------------------------------
(* Definitions the properties below are stated with *)

\* the step in which operation op runs: from idle to op's outcome
Step(op) == last.op = "idle" /\ last'.op = op

\* the units of table inventory that reference purchase i
UnitsOfPurchase(t, i) == {u \in DOMAIN t.inventory : t.inventory[u].purchase_id = i}

\* the units of table inventory that belong to a receipt
UnitsOfReceipt(t, receipt_id) ==
    {u \in DOMAIN t.inventory :
        t.purchases[t.inventory[u].purchase_id].receipt_id = receipt_id}

\* the units a step moves from in_stock to consumed
Transitioned ==
    {u \in DOMAIN conn.inventory :
        /\ conn.inventory[u].status = "in_stock"
        /\ u \in DOMAIN conn'.inventory
        /\ conn'.inventory[u].status = "consumed"}

\* the rules of the table with a keyword in the name
MatchingRules(product_name) ==
    {r \in DOMAIN KEYWORD_RULES : RuleMatches(KEYWORD_RULES[r], product_name)}

\* the template of the earliest rule with a keyword in the name
FirstTemplate(product_name) ==
    KEYWORD_RULES[CHOOSE r \in MatchingRules(product_name) :
                      \A q \in MatchingRules(product_name) : r <= q].attrs

\* a result carries the category, subcategory, storage class and food flag
\* of a template
CarriesTemplate(info, attrs) ==
    /\ info.category = attrs.category
    /\ info.subcategory = attrs.subcategory
    /\ info.storage_type = attrs.storage_type
    /\ info.is_food = (IF "is_food" \in DOMAIN attrs THEN attrs.is_food ELSE TRUE)

\* the times of the clock, in ticks
NowTicks == 0..(MaxNow * TicksPerDay)

-----------------------------------------------------------------------------
(* C1 *)

\* C1: import_receipt is atomic per receipt: a call that fails with a
\* storage error leaves no row it wrote observable, neither through the
\* connection (conn as before the call) nor in the file (disk as before the
\* call, so that no later commit can publish anything of it).
C1_FailedImportLeavesNothing ==
    [][(Step("import_receipt") /\ last'.ret = None)
          => (conn' = conn /\ disk' = disk)]_vars

-----------------------------------------------------------------------------
(* C2 *)

\* C2: import_receipt for a receipt id the ledger already holds a purchase
\* of returns 0, raises nothing and leaves every table unchanged, whatever
\* items and classifications are passed.
C2_ReimportIsNoOp ==
    [][(Step("import_receipt")
           /\ \E i \in DOMAIN conn.purchases :
                 conn.purchases[i].receipt_id = last'.receipt_id)
          => (last'.ret = Some(0) /\ conn' = conn /\ disk' = disk)]_vars

\* C2: a second import of a receipt id has returned 0 although the items
\* passed differ from those of the first import
C2_Witness ==
    /\ last.op = "import_receipt"
    /\ last.was_imported
    /\ ~last.same_items
    /\ last.ret = Some(0)

-----------------------------------------------------------------------------
(* C3 *)

\* C3 as stated: for every receipt whose id is not in the ledger the first
\* import returns a count > 0, and a second import of the same value
\* returns 0 and leaves the number of units of the receipt unchanged.
C3_Original ==
    [][Step("import_receipt")
          => /\ ~last'.was_imported
                  => (last'.ret # None /\ last'.ret[1] > 0)
             /\ (last'.was_imported /\ last'.same_items)
                  => /\ last'.ret = Some(0)
                     /\ Cardinality(UnitsOfReceipt(conn', last'.receipt_id))
                          = Cardinality(UnitsOfReceipt(conn, last'.receipt_id))]_vars

\* C3 amended: for every receipt with at least one item whose id is not in
\* the ledger the first import returns a count > 0 (the number of its
\* items), and a second import of the same value returns 0 and leaves the
\* number of units of the receipt unchanged.
C3_IdempotentImport ==
    [][Step("import_receipt")
          => /\ (~last'.was_imported /\ last'.n_items > 0)
                  => (last'.ret = Some(last'.n_items) /\ last'.ret[1] > 0)
             /\ (last'.was_imported /\ last'.same_items)
                  => /\ last'.ret = Some(0)
                     /\ Cardinality(UnitsOfReceipt(conn', last'.receipt_id))
                          = Cardinality(UnitsOfReceipt(conn, last'.receipt_id))]_vars

\* C3: the same receipt value has been imported a second time, and units
\* of it are in the ledger
C3_Witness ==
    /\ last.op = "import_receipt"
    /\ last.was_imported
    /\ last.same_items
    /\ last.ret = Some(0)
    /\ UnitsOfReceipt(conn, last.receipt_id) # {}

-----------------------------------------------------------------------------
(* C4 *)

\* C4: unit expansion: every purchase has as many units as its stored
\* quantity, the units an import adds are in_stock, and no step adds units
\* to or removes units from a purchase that exists.
C4_UnitExpansion ==
    [][/\ \A i \in DOMAIN conn'.purchases :
              Cardinality(UnitsOfPurchase(conn', i)) = conn'.purchases[i].quantity
       /\ \A i \in DOMAIN conn.purchases :
              UnitsOfPurchase(conn', i) = UnitsOfPurchase(conn, i)
       /\ \A u \in DOMAIN conn'.inventory \ DOMAIN conn.inventory :
              conn'.inventory[u].status = "in_stock"]_vars

-----------------------------------------------------------------------------
(* C5 *)

\* C5: get_in_stock_items has exactly one row for each product with a unit
\* in stock and none for another product, and the row's quantity is the
\* number of the product's units in stock.
C5_StockListing ==
    LET rows == get_in_stock_items(conn) IN
    /\ {row.name : row \in rows}
         = {n \in {conn.products[p].name : p \in DOMAIN conn.products} :
               InStockUnitsOf(conn, n) # {}}
    /\ \A r1, r2 \in rows : r1.name = r2.name => r1 = r2
    /\ \A row \in rows :
           row.total_quantity = Cardinality(InStockUnitsOf(conn, row.name))

-----------------------------------------------------------------------------
(* C6 *)

\* C6: for every unit in stock of a product that was imported with its
\* classification, whose rule defines a shelf life of s days, and that was
\* purchased d days before now, get_expiring_soon(w) has a row for the unit
\* exactly when s - d <= w, with s - d as its days remaining; a unit that is
\* consumed, or whose product has no shelf life, has no row.
C6_ExpiryListing ==
    \A now \in NowTicks, w \in 0..MaxWindow, u \in DOMAIN conn.inventory :
        LET product == conn.products[ProductOfUnit(conn, u)]
            rows == {row \in get_expiring_soon(conn, w, now) : row.unit = u}
            today == now \div TicksPerDay
            d == today - PurchasedAtOfUnit(conn, u)
            classified ==
                /\ MatchingRules(product.name) # {}
                /\ product.category = FirstTemplate(product.name).category
            s == FirstTemplate(product.name).shelf_life_days
        IN  IF /\ conn.inventory[u].status = "in_stock"
               /\ classified
               /\ "shelf_life_days" \in DOMAIN FirstTemplate(product.name)
            THEN /\ (rows # {}) <=> (s - d <= w)
                 /\ \A row \in rows : row.days_remaining = (s - d) * TicksPerDay
            ELSE (conn.inventory[u].status # "in_stock"
                    \/ MatchingRules(product.name) = {}) => rows = {}

-----------------------------------------------------------------------------
(* C7 *)

\* C7: when a rule matches the name, search_product_info returns the rule's
\* full template: category, subcategory, storage class, food flag and the
\* rule's shelf life.
C7_FullTemplate ==
    (/\ last.op = "search_product_info"
     /\ MatchingRules(last.product_name) # {})
       => /\ CarriesTemplate(last.ret, FirstTemplate(last.product_name))
          /\ "shelf_life_days" \in DOMAIN FirstTemplate(last.product_name)
               => /\ "shelf_life_days" \in DOMAIN last.ret
                  /\ last.ret.shelf_life_days
                       = FirstTemplate(last.product_name).shelf_life_days

-----------------------------------------------------------------------------
(* C8 *)

\* C8: cache monotonicity: once search_product_info has returned for a
\* name, the result is in the cache under that name; a later call for the
\* name returns the cached value, runs neither the rule table nor the
\* enrichment and leaves the cache as it is; an entry of the cache never
\* changes; the enrichment runs at most once per name.
C8_CacheMonotone ==
    [][/\ Step("search_product_info")
            => /\ last'.product_name \in DOMAIN conn'.search_cache
               /\ InfoFromDict(conn'.search_cache[last'.product_name]) = last'.ret
       /\ (Step("search_product_info")
             /\ last'.product_name \in DOMAIN conn.search_cache)
            => /\ last'.ret = InfoFromDict(conn.search_cache[last'.product_name])
               /\ calls' = calls
               /\ conn' = conn
       /\ \A n \in DOMAIN conn.search_cache :
              /\ n \in DOMAIN conn'.search_cache
              /\ conn'.search_cache[n] = conn.search_cache[n]
       /\ \A n \in DOMAIN calls' :
              calls'[n].rule <= 1 /\ calls'[n].google <= 1]_vars

\* C8: a name has been asked for again, after the enrichment had run for it
\* and the default heuristic's result had been cached
C8_Witness ==
    /\ last.op = "search_product_info"
    /\ last.hit
    /\ CallsOf(calls, last.product_name).google = 1
    /\ last.ret = ProductInfo("", "", None, "", "", "joon", TRUE)

-----------------------------------------------------------------------------
(* C9 *)

\* C9: rule precedence: for a name not in the cache that holds keywords of
\* two or more rules, search_product_info returns the template of the
\* earliest of them in the table, wherever the keywords stand in the name.
C9_RulePrecedence ==
    (/\ last.op = "search_product_info"
     /\ ~last.hit
     /\ Cardinality(MatchingRules(last.product_name)) >= 2)
       => CarriesTemplate(last.ret, FirstTemplate(last.product_name))

\* C9: 缶ハム, where the keyword of the later rule (缶) stands first, has been
\* classified by the earlier rule (ハム)
C9_Witness ==
    /\ last.op = "search_product_info"
    /\ ~last.hit
    /\ last.product_name = <<"kan", "ha", "mu">>
    /\ last.ret.subcategory = "hamu-sooseeji"

-----------------------------------------------------------------------------
(* C10 *)

\* C10: mark_consumed(product_name, count) with count >= 1 moves exactly
\* min(count, k) units to consumed, k being the units of the product in
\* stock before the call, and returns that number; it raises nothing when
\* k < count.
C10_MarkConsumedCount ==
    [][(Step("mark_consumed") /\ last'.count >= 1)
          => LET k == Cardinality(InStockUnitsOf(conn, last'.product_name))
             IN  /\ last'.ret = Min(last'.count, k)
                 /\ Cardinality(Transitioned) = Min(last'.count, k)
                 /\ Transitioned \subseteq InStockUnitsOf(conn, last'.product_name)]_vars

\* C10: fewer units were in stock than asked for, and their number was
\* returned
C10_Witness ==
    /\ last.op = "mark_consumed"
    /\ last.count >= 1
    /\ last.ret >= 1
    /\ last.ret < last.count

-----------------------------------------------------------------------------
(* C11 *)

\* C11: the lifecycle of a unit is one-way: a unit whose status is not
\* in_stock keeps its row as it is in every step (import, re-import,
\* mark_consumed, search_product_info), on the connection and in the file.
C11_OneWayLifecycle ==
    [][/\ \A u \in DOMAIN conn.inventory :
              conn.inventory[u].status # "in_stock"
                  => /\ u \in DOMAIN conn'.inventory
                     /\ conn'.inventory[u] = conn.inventory[u]
       /\ \A u \in DOMAIN disk.inventory :
              disk.inventory[u].status # "in_stock"
                  => /\ u \in DOMAIN disk'.inventory
                     /\ disk'.inventory[u] = disk.inventory[u]]_vars

\* C11: a receipt has been imported again after a unit of it was consumed,
\* and a name has been classified before
C11_Witness ==
    /\ last.op = "import_receipt"
    /\ last.was_imported
    /\ \E u \in UnitsOfReceipt(conn, last.receipt_id) :
           conn.inventory[u].status = "consumed"
    /\ DOMAIN conn.search_cache # {}

-----------------------------------------------------------------------------
(* C12 *)

\* C12: no two rows of products have the same name, on the connection and
\* in the file.
C12_UniqueNames ==
    /\ \A i, j \in DOMAIN conn.products :
           conn.products[i].name = conn.products[j].name => i = j
    /\ \A i, j \in DOMAIN disk.products :
           disk.products[i].name = disk.products[j].name => i = j

\* C12: a name occurred twice in one receipt, once more in another receipt,
\* with a classification in one import and without in the other
C12_Witness ==
    /\ last.op = "import_receipt"
    /\ ~last.was_imported
    /\ DOMAIN last.product_infos = {}
    /\ \E i, j \in DOMAIN conn.purchases :
           /\ i # j
           /\ conn.purchases[i].product_id = conn.purchases[j].product_id
           /\ conn.purchases[i].receipt_id # conn.purchases[j].receipt_id
           /\ conn.products[conn.purchases[i].product_id].category # ""

-----------------------------------------------------------------------------
(* C19 *)

\* the classification fields of a products row equal those of a ProductInfo
SameClassification(row, info) ==
    /\ row.category = info.category
    /\ row.subcategory = info.subcategory
    /\ row.content_amount = info.content_amount
    /\ row.content_unit = info.content_unit
    /\ row.manufacturer = info.manufacturer
    /\ row.storage_type = info.storage_type
    /\ row.is_food = (IF info.is_food THEN 1 ELSE 0)

\* C19: an import that is not a re-import leaves every product that existed
\* and is named by an item of the receipt with exactly the supplied
\* classification when one is supplied for the name, and with its row
\* unchanged when none is supplied.
C19_UpsertOverwrites ==
    [][(Step("import_receipt") /\ ~last'.was_imported)
          => \A p \in DOMAIN conn.products :
                 (\E i \in DOMAIN conn'.purchases :
                      /\ conn'.purchases[i].receipt_id = last'.receipt_id
                      /\ conn'.purchases[i].product_id = p)
                   => IF conn.products[p].name \in DOMAIN last'.product_infos
                      THEN /\ SameClassification(
                                  conn'.products[p],
                                  last'.product_infos[conn.products[p].name])
                           /\ conn'.products[p].name = conn.products[p].name
                      ELSE conn'.products[p] = conn.products[p]]_vars

\* C19: an import has replaced the classification of a product that carried
\* a maker and an amount by one without them
C19_Witness ==
    /\ last.op = "import_receipt"
    /\ \E p \in last.updated :
           /\ conn.products[p].category = ""
           /\ conn.products[p].manufacturer = ""
           /\ conn.products[p].content_amount = None

-----------------------------------------------------------------------------
(* C20 *)

\* C20: mark_consumed consumes oldest first: every unit the call moves to
\* consumed was purchased no later than every unit of the product that is
\* still in stock after the call.
C20_OldestFirst ==
    [][Step("mark_consumed")
          => \A x \in Transitioned,
                y \in InStockUnitsOf(conn', last'.product_name) :
                 PurchasedAtOfUnit(conn, x) <= PurchasedAtOfUnit(conn', y)]_vars

\* C20: the call consumed the units of the older purchase of a product and
\* left a unit of a newer purchase, of another receipt, in stock
C20_Witness ==
    /\ last.op = "mark_consumed"
    /\ last.ret >= 1
    /\ \E x, y \in DOMAIN conn.inventory :
           /\ conn.inventory[x].status = "consumed"
           /\ conn.inventory[y].status = "in_stock"
           /\ conn.products[ProductOfUnit(conn, x)].name = last.product_name
           /\ ProductOfUnit(conn, y) = ProductOfUnit(conn, x)
           /\ PurchasedAtOfUnit(conn, x) < PurchasedAtOfUnit(conn, y)

-----------------------------------------------------------------------------
(* C17 *)

\* C17: search_product_info is deterministic given the cache: a second copy
\* of the system with the same database, asked for the same name, returns
\* the same ProductInfo and ends with the same cache, whether or not it has
\* credentials and whatever the search service answers it.
C17_Deterministic ==
    [][Step("search_product_info")
          => \A has_keys \in BOOLEAN, resp \in GoogleResponses :
                 LET copy == search_product_info([conn |-> conn, disk |-> disk],
                                                 last'.product_name, has_keys, resp)
                 IN  /\ copy.ret = last'.ret
                     /\ copy.db.conn.search_cache = conn'.search_cache]_vars

-----------------------------------------------------------------------------
(* C13 *)

\* the items of the structured stage for a payload that the stage gets and
\* that it reads without an exception; zero items when it gets none
StructuredItems(detail) ==
    IF detail.raw = None \/ Falsy(detail.raw[1]) THEN <<>>
    ELSE _parse_from_raw(detail.raw[1])[1]

-----------------------------------------------------------------------------
(* C14 *)

\* C14: parse_receipt raises no error, whatever the payload holds at any
\* level of its nesting (a null LineItem, an entry or a Sale that is not an
\* object, a description wrapper around a number included), and a payload
\* that yields no item has the products of the text lines returned.
C14_MalformedNeverRaises ==
    last.op = "parse_receipt"
        => /\ last.ret # None
           /\ StructuredItems(last.detail) = <<>>
                  => last.ret[1].products = _parse_from_lines(last.detail.lines)

-----------------------------------------------------------------------------
(* C15 *)

\* the positions of the lines that the textual stage accepts as items
AcceptedLines(lines) ==
    {k \in 1..Len(lines) : _parse_from_lines(<<lines[k]>>) # <<>>}

\* a discount line: a line that is not skipped and not a product line, with
\* a discount word and a negative number after it
IsDiscountLine(line) ==
    /\ \A i \in DOMAIN line : line[i] \notin {"Bitmap", "BarCode"}
    /\ DoubleMatch(line) = None
    /\ ProductMatch(line) = None
    /\ DiscountMatch(line) # None

RECURSIVE NumberRun(_, _)
\* the length of the number text has from position i on: digits with
\* thousands separators
NumberRun(text, i) ==
    IF i <= Len(text) /\ (IsDigit(text[i]) \/ text[i] = ",")
    THEN 1 + NumberRun(text, i + 1) ELSE 0

\* the amount of a discount line as a positive number: the number after
\* the sign, whatever its length and with its separators
LineAmount(line) ==
    LET j == CHOOSE x \in 1..Len(line) :
                 /\ line[x] = "-"
                 /\ DigitRun(line, x + 1) >= 1
                 /\ \E i \in 1..(x - 1) : line[i] \in DiscountWords
                 /\ \A y \in 1..(x - 1) :
                        ~(line[y] = "-" /\ DigitRun(line, y + 1) >= 1
                            /\ \E i \in 1..(y - 1) : line[i] \in DiscountWords)
    IN  Decimal(Remove(SubSeq(line, j + 1, j + NumberRun(line, j + 1)), {","}), 0)

\* the discount that the item accepted at line k is to carry: the amount of
\* the last discount line between it and the next accepted item, 0 without
DiscountOfLine(lines, k) ==
    LET D == {d \in (k + 1)..Len(lines) :
                 /\ IsDiscountLine(lines[d])
                 /\ \A a \in AcceptedLines(lines) : ~(k < a /\ a < d)}
    IN  IF D = {} THEN 0
        ELSE LineAmount(lines[CHOOSE d \in D : \A e \in D : e <= d])

\* C15: in the textual stage a discount line sets the discount of the most
\* recently accepted item before it, and of no other item, to the amount of
\* the line as a positive number; a discount line before any accepted item
\* changes nothing and raises no error.
C15_DiscountAssociation ==
    (last.op = "parse_receipt" /\ last.ret # None
       /\ StructuredItems(last.detail) = <<>>)
        => LET lines == last.detail.lines
               products == last.ret[1].products
               A == AcceptedLines(lines)
           IN  /\ Len(products) = Cardinality(A)
               /\ \A k \in A :
                      products[Cardinality({a \in A : a <= k})].discount
                          = DiscountOfLine(lines, k)

-----------------------------------------------------------------------------
(* C16 *)

\* C16: every item that parse_receipt returns, of the structured stage or
\* of the textual one, has a name that is not empty after trimming, a
\* price >= 0, a quantity >= 1 and a discount >= 0.
C16_ItemConstraints ==
    (last.op = "parse_receipt" /\ last.ret # None)
        => \A i \in DOMAIN last.ret[1].products :
               LET item == last.ret[1].products[i]
               IN  /\ Strip(item.name) # <<>>
                   /\ item.price >= 0
                   /\ item.quantity >= 1
                   /\ item.discount >= 0

-----------------------------------------------------------------------------
(* C18 *)

\* the files two imports leave that run one after the other on an empty
\* store, first's before second's
Sequential(first, second) ==
    LET a == import_receipt([conn |-> EmptyTables, disk |-> EmptyTables],
                            importers.of[first].receipt,
                            importers.of[first].product_infos, NoFail)
    IN  import_receipt(a.db, importers.of[second].receipt,
                       importers.of[second].product_infos, NoFail).db.disk

RECURSIVE PurchasesFrom(_, _, _)
\* the Purchase rows of a receipt in the order of their ids, each with the
\* name of its product in the place of the product id and with the number
\* of its units in stock
PurchasesFrom(t, receipt_id, i) ==
    IF i > Len(t.purchases) THEN <<>>
    ELSE IF t.purchases[i].receipt_id = receipt_id
    THEN << [name |-> t.products[t.purchases[i].product_id].name,
             price |-> t.purchases[i].price,
             quantity |-> t.purchases[i].quantity,
             discount |-> t.purchases[i].discount,
             purchased_at |-> t.purchases[i].purchased_at,
             units |-> Cardinality({u \in DOMAIN t.inventory :
                                      /\ t.inventory[u].purchase_id = i
                                      /\ t.inventory[u].status = "in_stock"})] >>
            \o PurchasesFrom(t, receipt_id, i + 1)
    ELSE PurchasesFrom(t, receipt_id, i + 1)

\* two files hold the same Product, Purchase and InventoryUnit rows, the
\* ids that the engine numbers them with aside
SameRows(t, u) ==
    /\ {t.products[p] : p \in DOMAIN t.products}
           = {u.products[p] : p \in DOMAIN u.products}
    /\ Len(t.products) = Len(u.products)
    /\ Len(t.inventory) = Len(u.inventory)
    /\ \A k \in Importers : PurchasesFrom(t, k, 1) = PurchasesFrom(u, k, 1)

\* C18: imports of different receipts need no locking: when two importers
\* have each run import_receipt for a receipt of its own id on the same
\* file, whatever the order of their steps, both calls have returned
\* without a storage error and the file holds the rows that the two
\* imports leave when one runs after the other.
C18_NoLockingNeeded ==
    (\A k \in Importers : importers.of[k].pc \in {"done", "closed"})
        => /\ \A k \in Importers : importers.of[k].pc = "done"
           /\ \/ SameRows(disk, Sequential(1, 2))
              \/ SameRows(disk, Sequential(2, 1))

-----------------------------------------------------------------------------
(* C21 *)

\* C21: Purchase rows are immutable: no step (an import, a repeated import,
\* mark_consumed, a classification with its cache write) changes or removes
\* a row of table purchases, in the connection's view or in the file; and
\* mark_consumed changes nothing but the status of in_stock units of the
\* product it was called for: the units of every other product, table
\* products, table purchases and the cache stay as they are.
C21_PurchasesImmutable ==
    [][/\ \A t \in {<<conn, conn'>>, <<disk, disk'>>} :
              /\ Len(t[2].purchases) >= Len(t[1].purchases)
              /\ \A i \in DOMAIN t[1].purchases :
                     t[2].purchases[i] = t[1].purchases[i]
       /\ Step("mark_consumed")
              => /\ conn'.products = conn.products
                 /\ conn'.purchases = conn.purchases
                 /\ conn'.search_cache = conn.search_cache
                 /\ DOMAIN conn'.inventory = DOMAIN conn.inventory
                 /\ \A u \in DOMAIN conn.inventory :
                        \/ conn'.inventory[u] = conn.inventory[u]
                        \/ /\ conn.products[ProductOfUnit(conn, u)].name
                                  = last'.product_name
                           /\ conn.inventory[u].status = "in_stock"
                           /\ conn'.inventory[u] =
                                  [conn.inventory[u] EXCEPT !.status = "consumed"]]_vars

\* C21: mark_consumed has consumed a unit of one product while a unit of
\* another product, bought on the same receipt, is in stock and the cache
\* holds an entry
C21_Witness ==
    /\ last.op = "mark_consumed"
    /\ last.ret >= 1
    /\ DOMAIN conn.search_cache # {}
    /\ \E x, y \in DOMAIN conn.inventory :
           /\ conn.inventory[x].status = "consumed"
           /\ conn.products[ProductOfUnit(conn, x)].name = last.product_name
           /\ conn.inventory[y].status = "in_stock"
           /\ ProductOfUnit(conn, y) # ProductOfUnit(conn, x)
           /\ conn.purchases[conn.inventory[x].purchase_id].receipt_id
                  = conn.purchases[conn.inventory[y].purchase_id].receipt_id

-----------------------------------------------------------------------------
(* C22 *)

\* the line holds a bitmap or barcode control marker
HasMarker(line) == \E i \in DOMAIN line : line[i] \in {"Bitmap", "BarCode"}

\* the name holds a term of the denylist of non-product terms
HasDenyTerm(name) == \E i \in DOMAIN name : name[i] \in SkipWords

\* a line that the textual stage discards: one with a control marker, or
\* one that a price pattern matches with an empty or denylisted name or a
\* price <= 0
Discarded(line) ==
    \/ HasMarker(line)
    \/ LET m == IF DoubleMatch(line) # None THEN DoubleMatch(line)
                ELSE ProductMatch(line)
       IN  /\ m # None
           /\ \/ Strip(m[1].name) = <<>>
              \/ HasDenyTerm(Strip(m[1].name))
              \/ Decimal(m[1].price, 0) <= 0

\* name is a part of line
OccursIn(name, line) ==
    \E j \in 1..(Len(line) - Len(name) + 1) :
        SubSeq(line, j, j + Len(name) - 1) = name

\* C22: the textual stage filters: the items returned come, in order, from
\* lines without a bitmap or barcode marker; none has a name with a term of
\* the denylist or a price <= 0, PrintDouble lines included; and the
\* discarded lines have no effect at all, so that a discount line after a
\* discarded line goes where it goes without that line.
C22_TextualFiltering ==
    (last.op = "parse_receipt" /\ last.ret # None
       /\ StructuredItems(last.detail) = <<>>)
        => LET lines == last.detail.lines
               products == last.ret[1].products
           IN  /\ \A i \in DOMAIN products :
                      /\ products[i].price > 0
                      /\ ~HasDenyTerm(products[i].name)
               /\ \E f \in [DOMAIN products -> DOMAIN lines] :
                      /\ \A i, j \in DOMAIN products : i < j => f[i] < f[j]
                      /\ \A i \in DOMAIN products :
                             /\ ~HasMarker(lines[f[i]])
                             /\ OccursIn(products[i].name, lines[f[i]])
               /\ products =
                      _parse_from_lines(SelectSeq(lines, LAMBDA l : ~Discarded(l)))

\* C22: a text with an item, then a line that is discarded for its name
\* (合計), a marker or a price of 0, then a discount line has been parsed:
\* the one item returned is the first line's, with the discount
C22_Witness ==
    /\ last.op = "parse_receipt"
    /\ last.ret # None
    /\ StructuredItems(last.detail) = <<>>
    /\ Len(last.detail.lines) = 3
    /\ Discarded(last.detail.lines[2])
    /\ Len(last.ret[1].products) = 1
    /\ OccursIn(last.ret[1].products[1].name, last.detail.lines[1])
    /\ last.ret[1].products[1].discount = 50

-----------------------------------------------------------------------------
(* C23 *)

-----------------------------------------------------------------------------
(* C24 *)

\* C24: the order of the rule table puts the more specific entry first:
\* a name that is not cached and equals a keyword of a rule is classified
\* with the template of that rule.
C24_TableOrder ==
    (last.op = "search_product_info" /\ ~last.hit)
        => \A r \in DOMAIN KEYWORD_RULES :
               (\E k \in DOMAIN KEYWORD_RULES[r].keywords :
                    KEYWORD_RULES[r].keywords[k] = last.product_name)
                   => CarriesTemplate(last.ret, KEYWORD_RULES[r].attrs)


-----------------------------------------------------------------------------
(* cli/inventory_cmd.py: cmd_expiring, and C25 *)

\* the longest shelf life a product on the shelf carries, in days
MaxShelfLife == 2

\* int(item["days_remaining"]): Python's int() drops the fraction of a day,
\* toward zero
IntDays(ticks) ==
    IF ticks >= 0 THEN ticks \div TicksPerDay ELSE -((-ticks) \div TicksPerDay)

\* the status cmd_expiring prints for a row: expired by n days, due today, or
\* n days remaining
StatusLabel(days_remaining) ==
    LET remaining == IntDays(days_remaining)
    IN  IF remaining < 0 THEN [label |-> "kigengire", days |-> -remaining]
        ELSE IF remaining = 0 THEN [label |-> "honjitsu_kigen", days |-> 0]
        ELSE [label |-> "nokori", days |-> remaining]

\* cmd_expiring with --days at time now: what it prints for each row of
\* get_expiring_soon
cmd_expiring(t, days, now) ==
    {[unit |-> item.unit, name |-> item.name, purchased_at |-> item.purchased_at,
      expires_at |-> item.expires_at,
      status |-> StatusLabel(item.days_remaining)] :
        item \in get_expiring_soon(t, days, now)}

\* products.shelf_life_days INTEGER: the tables with the column set to s days
\* for every product
WithShelfLife(t, s) ==
    [t EXCEPT !.products =
        [p \in DOMAIN @ |-> [@[p] EXCEPT !.shelf_life_days = Some(s)]]]

\* a store file that holds one imported receipt of one line item and whose
\* products carry a shelf life
ShelfInit ==
    /\ \E receipt \in {r \in ReceiptProducts : Len(r.products) = 1},
          s \in 0..MaxShelfLife :
           conn = WithShelfLife(
                      import_receipt([conn |-> EmptyTables, disk |-> EmptyTables],
                                     receipt, <<>>, NoFail).db.conn, s)
    /\ disk = conn
    /\ calls = <<>>
    /\ faults = 0
    /\ last = [op |-> "idle"]
    /\ importers = [holder |-> 0, of |-> [k \in Importers |-> [pc |-> "idle"]]]

\* cmd_expiring(args) at some time of some day
Expiring ==
    \E days \in 0..MaxWindow, now \in NowTicks :
        /\ last.op = "idle"
        /\ last' = [op |-> "cmd_expiring", days |-> days, now |-> now,
                    ret |-> cmd_expiring(conn, days, now)]
        /\ UNCHANGED <<conn, disk, calls, faults, importers>>

ShelfNext == Expiring \/ Return

ShelfSpec == ShelfInit /\ [][ShelfNext]_vars

-----------------------------------------------------------------------------
(* C26 *)

\* what import_receipt returns for the receipt of the call just made when it
\* is called again on the tables t and meets no failure
RetryOf(t, call) ==
    {import_receipt([conn |-> t, disk |-> t], receipt, call.product_infos,
                    NoFail).ret :
        receipt \in {r \in ReceiptProducts :
                       /\ r.receipt_id = call.receipt_id
                       /\ Len(r.products) = call.n_items}}

\* C26: a failed import can be retried: after import_receipt has failed with
\* a storage error, is_receipt_imported is false for its receipt, and a later
\* import_receipt of the same receipt that meets no failure returns the number
\* of its line items -- on the same connection and, after the process has
\* ended, on the file.
C26_FailedImportRetried ==
    [][(Step("import_receipt") /\ last'.ret = None)
          => /\ ~is_receipt_imported(conn', last'.receipt_id)
             /\ ~is_receipt_imported(disk', last'.receipt_id)
             /\ RetryOf(conn', last') = {Some(last'.n_items)}
             /\ RetryOf(disk', last') = {Some(last'.n_items)}]_vars


-----------------------------------------------------------------------------
(* C27 *)

\* C27: no sequence of search_product_info, import_receipt and mark_consumed
\* stores a shelf life: products.shelf_life_days is NULL for every product,
\* through the connection and in the file, and get_expiring_soon(w) is empty
\* for every w at every time.
C27_NoShelfLife ==
    /\ \A p \in DOMAIN conn.products : conn.products[p].shelf_life_days = None
    /\ \A p \in DOMAIN disk.products : disk.products[p].shelf_life_days = None
    /\ \A now \in NowTicks, w \in 0..MaxWindow :
           get_expiring_soon(conn, w, now) = {}

\* C27: a unit is in stock of a product that was imported with the
\* classification of a rule that defines a shelf life
C27_Witness ==
    \E u \in InStockUnits(conn) :
        LET product == conn.products[ProductOfUnit(conn, u)]
        IN  /\ MatchingRules(product.name) # {}
            /\ "shelf_life_days" \in DOMAIN FirstTemplate(product.name)
            /\ product.category = FirstTemplate(product.name).category


-----------------------------------------------------------------------------
(* C28 *)

\* C28: mark_consumed never moves more than max(count, 0) units to consumed:
\* with count = 0 or a negative count it changes no unit and returns 0,
\* whatever the number of in_stock units of the product.
C28_CountBound ==
    [][Step("mark_consumed")
          => /\ Cardinality({u \in DOMAIN conn.inventory :
                               conn'.inventory[u] # conn.inventory[u]})
                    <= Max(last'.count, 0)
             /\ last'.count <= 0
                    => (conn' = conn /\ disk' = disk /\ last'.ret = 0)]_vars


-----------------------------------------------------------------------------
(* C29 *)

\* C29: the food flag agrees with the non-food denylist over the whole
\* cascade: for a name that is not cached and contains a keyword of
\* NON_FOOD_KEYWORDS, search_product_info returns is_food = False, whichever
\* step (rule table, search, default) produced the result.
C29_DenylistConsistent ==
    (/\ last.op = "search_product_info"
     /\ ~last.hit
     /\ ~NoNonFoodKeyword(last.product_name))
        => ~last.ret.is_food


-----------------------------------------------------------------------------
(* C30 *)

\* the store with a shelf life on its first products: imports, consumption
\* and the expiry report
ExpiryNext == ImportDayZero \/ MarkConsumed \/ Expiring \/ Return

ExpirySpec == ShelfInit /\ [][ExpiryNext]_vars

\* the units of the product of unit u are counted by get_in_stock_items
CountedInStock(t, u) ==
    \E row \in get_in_stock_items(t) :
        row.name = t.products[ProductOfUnit(t, u)].name

\* C30: the status expired is unreachable: every unit is in_stock or
\* consumed, and an in_stock unit, its expiry date passed or not, stays
\* in_stock and counted by get_in_stock_items until mark_consumed selects it.
C30_ExpiredUnreachable ==
    [][/\ \A u \in DOMAIN conn.inventory :
              conn.inventory[u].status \in {"in_stock", "consumed"}
       /\ \A u \in DOMAIN conn'.inventory :
              conn'.inventory[u].status \in {"in_stock", "consumed"}
       /\ \A u \in InStockUnits(conn) :
              \/ u \in InStockUnits(conn') /\ CountedInStock(conn', u)
              \/ /\ Step("mark_consumed")
                 /\ conn'.inventory[u].status = "consumed"]_vars

\* C30: cmd_expiring has reported a unit as expired, and the unit is in_stock
\* and counted by get_in_stock_items
C30_Witness ==
    /\ last.op = "cmd_expiring"
    /\ \E line \in last.ret :
           /\ line.status.label = "kigengire"
           /\ line.expires_at < last.now \div TicksPerDay
           /\ conn.inventory[line.unit].status = "in_stock"
           /\ CountedInStock(conn, line.unit)

====
